---- MODULE Spec2Model ----
(***************************************************************************)
(* Model of src/src/hh.py: the Vacancies record, the JSONSaver file store  *)
(* and the filter / range / sort / top-N pipeline of user_interaction.     *)
(***************************************************************************)
EXTENDS Integers, Sequences, FiniteSets, TLC

VARIABLES
    file,                \* JSONSaver: the JSON document held by the backing file
    last,                \* JSONSaver: the call that ran last (arguments, file before, return)
    prev,                \* JSONSaver: the call that ran before it
    rec,                 \* Vacancies: the last construction (arguments and outcome)
    pc,                  \* user_interaction: position in the function body
    top_n,               \* user_interaction locals, named as in the source
    filter_words,
    salary_range,
    vacancies_list,
    filtered_vacancies,
    ranged_vacancies,
    sorted_vacancies,
    top_vacancies,
    raised,              \* the exception that ended user_interaction ("" when none)
    disk,                \* two callers on one file: the file's content
    caller,              \* two callers: each caller's operation, position and loaded list
    ledger,              \* two callers: the operations in the order they completed
    overlapped           \* two callers: some step ran while another call was open

vars == <<file, last, prev, rec, pc, top_n, filter_words, salary_range,
          vacancies_list, filtered_vacancies, ranged_vacancies, sorted_vacancies,
          top_vacancies, raised, disk, caller, ledger, overlapped>>

storeVars == <<file, last, prev>>
recVars == <<rec>>
uiVars == <<pc, top_n, filter_words, salary_range, vacancies_list, filtered_vacancies,
            ranged_vacancies, sorted_vacancies, top_vacancies, raised>>
raceVars == <<disk, caller, ledger, overlapped>>

----------------------------------------------------------------------------
(* Bounds of the model.                                                     *)

MaxStored == 3           \* entries the file may hold
MaxItems == 2            \* raw items handed to cast_to_object_list
MaxVacancies == 3        \* entries handed to the pipeline
MaxTop == 3              \* largest count typed at the top-N prompt
MaxCalls == 3            \* calls the two callers make between them

----------------------------------------------------------------------------
(* Python values.  A value carries its type; a string is its characters;   *)
(* PyFloat(k) is the float k.0 and PyNaN the float nan.                     *)

PyNone == [t |-> "none", n |-> 0, s |-> <<>>]
PyInt(k) == [t |-> "int", n |-> k, s |-> <<>>]
PyFloat(k) == [t |-> "float", n |-> k, s |-> <<>>]
PyStr(cs) == [t |-> "str", n |-> 0, s |-> cs]

PyNaN == [t |-> "float", n |-> 0, s |-> <<"n", "a", "n">>]

IsNumber(v) == v.t \in {"int", "float"}

IsNaN(v) == v.t = "float" /\ v.s # <<>>

\* Python's < on two numbers: every comparison with nan is False.
NumLess(a, b) == ~IsNaN(a) /\ ~IsNaN(b) /\ a.n < b.n

\* Python's ==: numbers compare by value across int and float (nan equals
\* nothing), everything else by type and value.
PyEq(a, b) ==
    IF IsNumber(a) /\ IsNumber(b) THEN ~IsNaN(a) /\ ~IsNaN(b) /\ a.n = b.n ELSE a = b

\* dict.get(key, default)
Get(d, key, default) == IF key \in DOMAIN d THEN d[key] ELSE default

\* The literal returned for a missing salary (a Russian phrase in the source).
SalaryNotSpecified == PyStr(<<"n", "/", "a">>)

----------------------------------------------------------------------------
(* json.dump / json.load on the values the store writes.                   *)

JsonDumpValue(v) ==
    CASE v.t = "none" -> [j |-> "null", n |-> 0, s |-> <<>>]
      [] v.t = "int" -> [j |-> "integer", n |-> v.n, s |-> <<>>]
      [] v.t = "float" -> [j |-> "real", n |-> v.n, s |-> v.s]
      [] v.t = "str" -> [j |-> "string", n |-> 0, s |-> v.s]

JsonLoadValue(x) ==
    CASE x.j = "null" -> PyNone
      [] x.j = "integer" -> PyInt(x.n)
      [] x.j = "real" -> [t |-> "float", n |-> x.n, s |-> x.s]
      [] x.j = "string" -> PyStr(x.s)

JsonDumpDict(d) == [k \in DOMAIN d |-> JsonDumpValue(d[k])]
JsonLoadDict(o) == [k \in DOMAIN o |-> JsonLoadValue(o[k])]

JsonDump(list) == [i \in 1..Len(list) |-> JsonDumpDict(list[i])]
JsonLoad(doc) == [i \in 1..Len(doc) |-> JsonLoadDict(doc[i])]

----------------------------------------------------------------------------
(* class Vacancies                                                          *)

\* validation_data: the returned salary, or the exception raised.
validation_data(salary) ==
    IF salary = PyNone \/ PyEq(salary, PyStr(<<>>))
    THEN [ok |-> TRUE, salary |-> SalaryNotSpecified, error |-> ""]
    ELSE IF ~IsNumber(salary)
    THEN [ok |-> FALSE, salary |-> PyNone, error |-> "ValueError"]
    ELSE IF NumLess(salary, PyInt(0))
    THEN [ok |-> FALSE, salary |-> PyNone, error |-> "ValueError"]
    ELSE [ok |-> TRUE, salary |-> salary, error |-> ""]

\* A local variable before its first assignment.
Unbound == [t |-> "unbound", n |-> 0, s |-> <<>>]

\* An argument left out of a call.
Omitted == [t |-> "omitted", n |-> 0, s |-> <<>>]

\* A value that is a dictionary (the salary substructure of a raw item).
PyDict == [t |-> "dict", n |-> 0, s |-> <<>>]

\* The parameter's value: the argument, or the default of the signature.
Param(arg, default) == IF arg = Omitted THEN default ELSE arg

\* Vacancies.__init__(name, link, salary=0, description="", id=None): the
\* object's attributes, or the exception raised.
Vacancies_init(name, link, salary, description, id) ==
    LET v == validation_data(Param(salary, PyInt(0))) IN
    IF v.ok
    THEN [ok |-> TRUE, error |-> "",
          obj |-> [name |-> name, link |-> link, salary |-> v.salary,
                   description |-> Param(description, PyStr(<<>>)),
                   id |-> Param(id, PyNone)]]
    ELSE [ok |-> FALSE, error |-> v.error, obj |-> <<>>]

RECURSIVE CastLoop(_, _, _)
CastLoop(raw_list, i, object_list) ==
    IF i > Len(raw_list)
    THEN [ok |-> TRUE, error |-> "", obj |-> object_list]
    ELSE LET vacancy == raw_list[i]
             made == Vacancies_init(Get(vacancy, "name", PyNone),
                                    Get(vacancy, "link", PyNone),
                                    Get(vacancy, "salary", PyInt(0)),
                                    Get(vacancy, "description", PyStr(<<>>)),
                                    Get(vacancy, "id", PyNone))
         IN IF made.ok
            THEN CastLoop(raw_list, i + 1, Append(object_list, made.obj))
            ELSE [ok |-> FALSE, error |-> made.error, obj |-> <<>>]

\* Vacancies.cast_to_object_list: the list of objects, or the exception of
\* the first item the constructor rejects.
cast_to_object_list(raw_list) == CastLoop(raw_list, 1, <<>>)

----------------------------------------------------------------------------
(* class JSONSaver.  Each method is a function of the file's content and   *)
(* the arguments; the actions below apply it to the file.                   *)

\* __init__ on a path where no file exists: json.dump([], file)
JSONSaver_init == JsonDump(<<>>)

\* add_vacancy writing the new entry alone, without the loaded list.
AddWritten_overwrites(vacancies, vacancy_data) ==
    JsonDump(<<[name |-> vacancy_data.name,
                link |-> vacancy_data.link,
                salary |-> vacancy_data.salary,
                description |-> vacancy_data.description,
                id |-> vacancy_data.id]>>)

\* add_vacancy after json.load: the content written from the loaded list.
AddWritten(vacancies, vacancy_data) ==
    LET vacancy_dict == [name |-> vacancy_data.name,
                         link |-> vacancy_data.link,
                         salary |-> vacancy_data.salary,
                         description |-> vacancy_data.description,
                         id |-> vacancy_data.id]
    IN JsonDump(Append(vacancies, vacancy_dict))

\* add_vacancy with the 'id' item of vacancy_dict left out.
add_vacancy_without_id(doc, vacancy_data) ==
    LET vacancy_dict == [name |-> vacancy_data.name,
                         link |-> vacancy_data.link,
                         salary |-> vacancy_data.salary,
                         description |-> vacancy_data.description]
    IN JsonDump(Append(JsonLoad(doc), vacancy_dict))

\* add_vacancy: the content written back
add_vacancy(doc, vacancy_data) == AddWritten(JsonLoad(doc), vacancy_data)

\* The inner loop of get_vacancies: matches stays True unless some
\* criteria item differs from vacancy.get(key).
Matches(vacancy, criteria) ==
    ~ \E key \in DOMAIN criteria : ~PyEq(Get(vacancy, key, PyNone), criteria[key])

RECURSIVE GetLoop(_, _, _, _)
GetLoop(vacancies, criteria, i, result) ==
    IF i > Len(vacancies) THEN result
    ELSE GetLoop(vacancies, criteria, i + 1,
                 IF Matches(vacancies[i], criteria)
                 THEN Append(result, vacancies[i]) ELSE result)

\* get_vacancies: the list returned
get_vacancies(doc, criteria) == GetLoop(JsonLoad(doc), criteria, 1, <<>>)

RECURSIVE DeleteLoop(_, _, _, _)
DeleteLoop(vacancies, vacancy_id, i, not_suitable) ==
    IF i > Len(vacancies) THEN not_suitable
    ELSE DeleteLoop(vacancies, vacancy_id, i + 1,
                    IF ~PyEq(Get(vacancies[i], "id", PyNone), vacancy_id)
                    THEN Append(not_suitable, vacancies[i]) ELSE not_suitable)

\* delete_vacancy after json.load: the content written from the loaded list.
DeleteWritten(vacancies, vacancy_id) ==
    JsonDump(DeleteLoop(vacancies, vacancy_id, 1, <<>>))

\* delete_vacancy stopping at the first entry it removes.
delete_vacancy_first_only(doc, vacancy_id) ==
    LET vacancies == JsonLoad(doc)
        hits == {i \in 1..Len(vacancies) : PyEq(Get(vacancies[i], "id", PyNone), vacancy_id)}
    IN IF hits = {} THEN doc
       ELSE LET h == CHOOSE i \in hits : \A k \in hits : i <= k
            IN JsonDump([i \in 1..(Len(vacancies) - 1) |->
                           IF i < h THEN vacancies[i] ELSE vacancies[i + 1]])

\* delete_vacancy: the content written back
delete_vacancy(doc, vacancy_id) == DeleteWritten(JsonLoad(doc), vacancy_id)

----------------------------------------------------------------------------
(* The store driven by one caller: any sequence of add / get / delete.      *)

StoreIds == {PyNone, PyStr(<<"a">>)}

\* Valid records handed to add_vacancy: built by the constructor.
StoreVacancies ==
    {r.obj : r \in {c \in {Vacancies_init(PyStr(<<"n">>), PyStr(<<"l">>), sal,
                                          PyStr(<<>>), id) :
                             sal \in {PyInt(1), PyNone}, id \in StoreIds} : c.ok}}

DeleteIds == StoreIds \cup {PyStr(<<"b">>)}

StoreCriteria ==
    {<<>>}
    \cup {[id |-> id] : id \in DeleteIds}
    \cup {[salary |-> sal] : sal \in {PyFloat(1), SalaryNotSpecified}}
    \cup {[text |-> t] : t \in {PyStr(<<"q">>), PyNone}}
    \cup {[id |-> PyStr(<<"a">>), salary |-> PyInt(1)]}

NoCall == [op |-> "none", arg |-> <<>>, before |-> <<>>, result |-> <<>>]

InitStore ==
    /\ file = JSONSaver_init
    /\ last = NoCall
    /\ prev = NoCall

AddVacancy ==
    \E vacancy_data \in StoreVacancies :
        /\ Len(file) < MaxStored
        /\ file' = add_vacancy(file, vacancy_data)
        /\ last' = [op |-> "add", arg |-> vacancy_data, before |-> file, result |-> <<>>]
        /\ prev' = last

GetVacancies ==
    \E criteria \in StoreCriteria :
        /\ file' = file
        /\ last' = [op |-> "get", arg |-> criteria, before |-> file,
                    result |-> get_vacancies(file, criteria)]
        /\ prev' = last

DeleteVacancy ==
    \E vacancy_id \in DeleteIds :
        /\ file' = delete_vacancy(file, vacancy_id)
        /\ last' = [op |-> "delete", arg |-> vacancy_id, before |-> file, result |-> <<>>]
        /\ prev' = last

IdleRec == [ok |-> TRUE, error |-> "", obj |-> <<>>, given |-> PyNone, op |-> "none"]

IdleUI ==
    /\ pc = "idle"
    /\ top_n = Unbound
    /\ filter_words = <<>>
    /\ salary_range = <<>>
    /\ vacancies_list = <<>>
    /\ filtered_vacancies = <<>>
    /\ ranged_vacancies = <<>>
    /\ sorted_vacancies = <<>>
    /\ top_vacancies = <<>>
    /\ raised = ""

IdleRace ==
    /\ disk = [state |-> "json", doc |-> <<>>]
    /\ caller = <<>>
    /\ ledger = [start |-> <<>>, ops |-> <<>>]
    /\ overlapped = FALSE

IdleStore ==
    /\ file = <<>>
    /\ last = NoCall
    /\ prev = NoCall

Init == InitStore /\ rec = IdleRec /\ IdleUI /\ IdleRace

Next ==
    \/ AddVacancy /\ UNCHANGED <<recVars, uiVars, raceVars>>
    \/ GetVacancies /\ UNCHANGED <<recVars, uiVars, raceVars>>
    \/ DeleteVacancy /\ UNCHANGED <<recVars, uiVars, raceVars>>

Spec == Init /\ [][Next]_vars

----------------------------------------------------------------------------
(* Claims about the store (specification Spec).                             *)

\* The dictionary add_vacancy stores for a record.
SerializedForm(r) ==
    [name |-> r.name, link |-> r.link, salary |-> r.salary,
     description |-> r.description, id |-> r.id]

\* The last two calls were add_vacancy(r) and then get_vacancies({"id": r.id}).
AddThenQueryById ==
    /\ prev.op = "add"
    /\ last.op = "get"
    /\ DOMAIN last.arg = {"id"}
    /\ last.arg.id = prev.arg.id

\* How many entries of a document carry the identifier id.
CountId(doc, id) ==
    Cardinality({i \in 1..Len(doc) : "id" \in DOMAIN doc[i] /\ JsonLoadValue(doc[i].id) = id})

\* C1 as stated: add_vacancy(r) followed by get_vacancies({"id": r.id})
\* returns exactly one entry, equal to r's serialized form.
C1_RoundTripExactlyOne ==
    AddThenQueryById =>
        /\ Len(last.result) = 1
        /\ last.result[1] = SerializedForm(prev.arg)

\* C1 amended: add_vacancy(r) followed by get_vacancies({"id": r.id}) returns
\* 1 + k entries, k being the number of entries that carried r.id before the
\* add; all of them carry r.id and the last one is r's serialized form.  It
\* returns exactly one entry when no stored entry carried r.id.
C1_RoundTripAmended ==
    AddThenQueryById =>
        LET k == CountId(prev.before, prev.arg.id)
            n == Len(last.result)
        IN /\ n = 1 + k
           /\ last.result[n] = SerializedForm(prev.arg)
           /\ \A i \in 1..n : last.result[i].id = prev.arg.id
           /\ (k = 0 => last.result = <<SerializedForm(prev.arg)>>)

\* C1 witness: a record was added to a file that already held its id, and the
\* query by that id has run.
C1_Witness ==
    /\ AddThenQueryById
    /\ CountId(prev.before, prev.arg.id) = 1
    /\ Len(last.result) = 2

\* The entries of a list whose id differs from x, in their order.
WithoutId(list, x) ==
    LET Keep(e) == ~("id" \in DOMAIN e /\ e.id = x) IN SelectSeq(list, Keep)

\* C2: after delete_vacancy(x) the file holds the previous entries without
\* those whose id is x, the others unchanged and in their order; when no
\* entry has id x the file is unchanged.
C2_DeleteRemovesExactly ==
    last.op = "delete" =>
        /\ JsonLoad(file) = WithoutId(JsonLoad(last.before), last.arg)
        /\ (CountId(last.before, last.arg) = 0 => file = last.before)

\* C2 witness: a delete removed an entry and kept another.
C2_Witness ==
    /\ last.op = "delete"
    /\ Len(file) >= 1
    /\ Len(file) < Len(last.before)

\* An entry has every criteria key, with a value equal to the expected one.
HasAll(entry, criteria) ==
    \A key \in DOMAIN criteria : key \in DOMAIN entry /\ PyEq(entry[key], criteria[key])

\* C3: get_vacancies(criteria) returns, in stored order, exactly the entries
\* that have every criteria key with an equal value (an entry lacking a key is
\* never returned; empty criteria return everything) and leaves the file as
\* it was.
C3_QueryExact ==
    last.op = "get" =>
        LET Hit(e) == HasAll(e, last.arg) IN
        /\ last.result = SelectSeq(JsonLoad(last.before), Hit)
        /\ file = last.before

----------------------------------------------------------------------------
(* The record constructor driven alone (specification SpecRecord).          *)

RawSalaries ==
    {Omitted, PyNone, PyStr(<<>>), PyStr(<<"x">>), SalaryNotSpecified, PyDict,
     PyInt(-1), PyInt(0), PyInt(2), PyFloat(-1), PyFloat(0), PyFloat(2), PyNaN}

\* Raw items: name and link always present, the other fields optional.
RawItems ==
    {[name |-> PyStr(<<"n">>), link |-> PyStr(<<"l">>)]}
    \cup {[name |-> PyStr(<<"n">>), link |-> PyStr(<<"l">>), salary |-> sal] :
             sal \in {PyNone, PyInt(2), PyInt(-1), PyDict}}
    \cup {[name |-> PyStr(<<"n">>), link |-> PyStr(<<"l">>), description |-> PyStr(<<"d">>)]}
    \cup {[name |-> PyStr(<<"n">>), link |-> PyStr(<<"l">>), salary |-> sal,
           description |-> PyStr(<<"d">>), id |-> PyStr(<<"a">>)] :
             sal \in {PyNone, PyInt(2)}}

RECURSIVE SeqsUpTo(_, _)
SeqsUpTo(S, n) ==
    IF n = 0 THEN {<<>>}
    ELSE LET shorter == SeqsUpTo(S, n - 1)
         IN shorter \cup {Append(q, x) : q \in {r \in shorter : Len(r) = n - 1}, x \in S}

InitRecord == IdleStore /\ rec = IdleRec /\ IdleUI /\ IdleRace

Construct ==
    \E salary \in RawSalaries, description \in {Omitted, PyStr(<<"d">>)},
       id \in {Omitted, PyStr(<<"a">>)} :
        LET made == Vacancies_init(PyStr(<<"n">>), PyStr(<<"l">>), salary, description, id)
        IN rec' = [op |-> "init",
                   given |-> [salary |-> salary, description |-> description, id |-> id],
                   ok |-> made.ok,
                   error |-> made.error, obj |-> made.obj]

CastToObjectList ==
    \E items \in SeqsUpTo(RawItems, MaxItems) :
        LET cast == cast_to_object_list(items)
        IN rec' = [op |-> "cast", given |-> items, ok |-> cast.ok,
                   error |-> cast.error, obj |-> cast.obj]

NextRecord ==
    \/ Construct /\ UNCHANGED <<storeVars, uiVars, raceVars>>
    \/ CastToObjectList /\ UNCHANGED <<storeVars, uiVars, raceVars>>

SpecRecord == InitRecord /\ [][NextRecord]_vars

\* The salary the constructor received: the argument, or 0 when left out.
GivenSalary == Param(rec.given.salary, PyInt(0))

\* C8: construction succeeds iff the salary given is None, the empty string
\* or a number >= 0, and raises ValueError otherwise; a constructed record's
\* salary is the sentinel exactly when None or "" was given and is the given
\* number otherwise (0 stays 0), so it is always the sentinel or a number >= 0.
C8_SalaryValidated ==
    rec.op = "init" =>
        LET g == GivenSalary
            absent == g = PyNone \/ g = PyStr(<<>>)
            amount == IsNumber(g) /\ ~IsNaN(g) /\ g.n >= 0
        IN /\ rec.ok <=> (absent \/ amount)
           /\ ~rec.ok => rec.error = "ValueError"
           /\ rec.ok => /\ (absent <=> rec.obj.salary = SalaryNotSpecified)
                        /\ (amount => rec.obj.salary = g)

\* C9: cast_to_object_list yields one record per raw item, in input order;
\* an item without a salary field yields the sentinel salary (not the number
\* 0) and an item without a description field yields the empty description.
C9_MissingSalaryIsSentinel ==
    (rec.op = "cast" /\ rec.ok) =>
        /\ Len(rec.obj) = Len(rec.given)
        /\ \A i \in 1..Len(rec.given) :
              /\ rec.obj[i].name = rec.given[i].name
              /\ "salary" \notin DOMAIN rec.given[i] =>
                     rec.obj[i].salary = SalaryNotSpecified
              /\ "description" \notin DOMAIN rec.given[i] =>
                     rec.obj[i].description = PyStr(<<>>)

----------------------------------------------------------------------------
(* user_interaction: the helper functions.                                  *)

\* str.lower() on the letters the model uses.
LowerChar(c) ==
    CASE c = "P" -> "p"
      [] c = "G" -> "g"
      [] OTHER -> c

Lower(text) == [i \in 1..Len(text) |-> LowerChar(text[i])]

\* Python's `word in text` on strings.
Contains(word, text) ==
    \E i \in 0..(Len(text) - Len(word)) : SubSeq(text, i + 1, i + Len(word)) = word

\* any(word.lower() in description.lower() for word in words)
AnyWord(vacancy, words) ==
    \E w \in 1..Len(words) :
        Contains(Lower(words[w]), Lower(Get(vacancy, "description", PyStr(<<>>)).s))

RECURSIVE FilterLoop(_, _, _, _)
FilterLoop(vacancies, words, i, filtered) ==
    IF i > Len(vacancies) THEN filtered
    ELSE FilterLoop(vacancies, words, i + 1,
                    IF AnyWord(vacancies[i], words)
                    THEN Append(filtered, vacancies[i]) ELSE filtered)

filter_vacancies(vacancies, words) == FilterLoop(vacancies, words, 1, <<>>)

\* str.split('-'): the pieces between the dashes.
RECURSIVE SplitDash(_, _, _)
SplitDash(text, i, piece) ==
    IF i > Len(text) THEN <<piece>>
    ELSE IF text[i] = "-" THEN <<piece>> \o SplitDash(text, i + 1, <<>>)
    ELSE SplitDash(text, i + 1, Append(piece, text[i]))

Digits == {"0", "1", "2", "3", "4", "5", "6", "7", "8", "9"}

DigitValue(c) ==
    CASE c = "0" -> 0 [] c = "1" -> 1 [] c = "2" -> 2 [] c = "3" -> 3 [] c = "4" -> 4
      [] c = "5" -> 5 [] c = "6" -> 6 [] c = "7" -> 7 [] c = "8" -> 8 [] c = "9" -> 9

\* str.strip() of blanks.
RECURSIVE Strip(_)
Strip(text) ==
    IF text = <<>> THEN text
    ELSE IF Head(text) = " " THEN Strip(Tail(text))
    ELSE IF text[Len(text)] = " " THEN Strip(SubSeq(text, 1, Len(text) - 1))
    ELSE text

RECURSIVE Decimal(_)
Decimal(digits) ==
    IF digits = <<>> THEN 0
    ELSE 10 * Decimal(SubSeq(digits, 1, Len(digits) - 1)) + DigitValue(digits[Len(digits)])

\* int(text): blanks around the number and a leading + are ignored; anything
\* but digits raises.
ParseInt(text) ==
    LET stripped == Strip(text)
        body == IF stripped # <<>> /\ Head(stripped) = "+" THEN Tail(stripped) ELSE stripped
    IN
    IF body # <<>> /\ \A i \in 1..Len(body) : body[i] \in Digits
    THEN [ok |-> TRUE, n |-> Decimal(body)]
    ELSE [ok |-> FALSE, n |-> 0]

\* min_salary, max_salary = map(int, salary_range.split('-'))
ParseRange(range_text) ==
    LET pieces == SplitDash(range_text, 1, <<>>) IN
    IF Len(pieces) # 2 THEN [ok |-> FALSE, min |-> 0, max |-> 0]
    ELSE LET lo == ParseInt(pieces[1])
             hi == ParseInt(pieces[2])
         IN IF lo.ok /\ hi.ok THEN [ok |-> TRUE, min |-> lo.n, max |-> hi.n]
            ELSE [ok |-> FALSE, min |-> 0, max |-> 0]

\* isinstance(salary, int) and min_salary <= salary <= max_salary
InRange(vacancy, lo, hi) ==
    LET salary == Get(vacancy, "salary", PyNone)
    IN salary.t = "int" /\ lo <= salary.n /\ salary.n <= hi

RECURSIVE RangeLoop(_, _, _, _, _)
RangeLoop(vacancies, lo, hi, i, ranged) ==
    IF i > Len(vacancies) THEN ranged
    ELSE RangeLoop(vacancies, lo, hi, i + 1,
                   IF InRange(vacancies[i], lo, hi)
                   THEN Append(ranged, vacancies[i]) ELSE ranged)

\* get_vacancies_by_salary: the list returned, or the exception raised.
get_vacancies_by_salary(vacancies, range_text) ==
    IF range_text = <<>> THEN [ok |-> TRUE, error |-> "", list |-> vacancies]
    ELSE LET r == ParseRange(range_text) IN
         IF r.ok
         THEN [ok |-> TRUE, error |-> "",
               list |-> RangeLoop(vacancies, r.min, r.max, 1, <<>>)]
         ELSE [ok |-> FALSE, error |-> "ValueError", list |-> <<>>]

\* The sort key: v.get("salary", 0)
SortKey(vacancy) == Get(vacancy, "salary", PyInt(0))

\* Whether Python can order two keys with <: numbers with numbers, strings
\* with strings.
Comparable(a, b) == (IsNumber(a) /\ IsNumber(b)) \/ (a.t = "str" /\ b.t = "str")

CharRank(c) == CASE c = "/" -> 1 [] c = "a" -> 2 [] c = "n" -> 3 [] OTHER -> 0

RECURSIVE StrLess(_, _)
StrLess(x, y) ==
    IF y = <<>> THEN FALSE
    ELSE IF x = <<>> THEN TRUE
    ELSE IF Head(x) = Head(y) THEN StrLess(Tail(x), Tail(y))
    ELSE CharRank(Head(x)) < CharRank(Head(y))

\* a < b on two comparable keys.
KeyLess(a, b) == IF IsNumber(a) THEN NumLess(a, b) ELSE StrLess(a.s, b.s)

\* The place of a new element in a list sorted descending: after every
\* element that is not smaller (sorted is stable, also with reverse=True).
RECURSIVE InsertDescending(_, _)
InsertDescending(sorted, v) ==
    IF sorted = <<>> THEN <<v>>
    ELSE IF KeyLess(SortKey(Head(sorted)), SortKey(v)) THEN <<v>> \o sorted
    ELSE <<Head(sorted)>> \o InsertDescending(Tail(sorted), v)

RECURSIVE SortedDescending(_, _, _)
SortedDescending(vacancies, i, sorted) ==
    IF i > Len(vacancies) THEN sorted
    ELSE SortedDescending(vacancies, i + 1, InsertDescending(sorted, vacancies[i]))

\* sort_vacancies: the sorted list, or TypeError when two keys cannot be
\* ordered (a number against a string).
sort_vacancies(vacancies) ==
    IF \A i, k \in 1..Len(vacancies) :
           i # k => Comparable(SortKey(vacancies[i]), SortKey(vacancies[k]))
    THEN [ok |-> TRUE, error |-> "", list |-> SortedDescending(vacancies, 1, <<>>)]
    ELSE [ok |-> FALSE, error |-> "TypeError", list |-> <<>>]

\* The check of the prompt loop with < in place of <=.
TopNRejected_zero_allowed(n) == n < 0

\* The check of the prompt loop: top_n <= 0 raises ValueError.
TopNRejected(n) == n <= 0

\* get_top_vacancies: the slice vacancies[:n]
get_top_vacancies(vacancies, n) ==
    LET stop == IF n >= 0 THEN n ELSE Len(vacancies) + n
        cut == IF stop < 0 THEN 0 ELSE IF stop > Len(vacancies) THEN Len(vacancies) ELSE stop
    IN SubSeq(vacancies, 1, cut)

----------------------------------------------------------------------------
(* user_interaction run over a file that already exists (SpecUI).           *)

UIEntry(name, salary, description) ==
    [name |-> PyStr(<<name>>), link |-> PyStr(<<"l">>), salary |-> salary,
     description |-> PyStr(description), text |-> PyStr(<<"q">>)]

\* Entries the file may hold; the last one has neither salary nor description.
UIEntries ==
    {UIEntry("a", PyInt(2), <<"P", "y">>),
     UIEntry("b", PyInt(2), <<"P", "y">>),
     UIEntry("c", PyInt(1), <<"g", "o">>),
     UIEntry("d", SalaryNotSpecified, <<"P", "y">>),
     UIEntry("e", PyFloat(2), <<"p", "y">>),
     [name |-> PyStr(<<"f">>), link |-> PyStr(<<"l">>), text |-> PyStr(<<"q">>)]}

\* What the user may type at the keyword prompt, after split().
FilterWordLists == {<<>>, <<<<"p", "y">>>>, <<<<"G", "o">>, <<"p", "y">>>>}

\* What the user may type at the salary-range prompt.
RangeTexts == {<<>>, <<"1", "-", "2">>, <<"2", " ", "-", " ", "3">>, <<"x">>}

SearchQueries == {PyStr(<<"q">>)}

InitUI ==
    /\ file \in {JsonDump(list) : list \in SeqsUpTo(UIEntries, MaxVacancies)}
    /\ last = NoCall
    /\ prev = NoCall
    /\ rec = IdleRec
    /\ pc = "prompt"
    /\ top_n = Unbound
    /\ filter_words = <<>>
    /\ salary_range = <<>>
    /\ vacancies_list = <<>>
    /\ filtered_vacancies = <<>>
    /\ ranged_vacancies = <<>>
    /\ sorted_vacancies = <<>>
    /\ top_vacancies = <<>>
    /\ raised = ""
    /\ IdleRace

\* The prompt loop, one pass: the text typed is a number.
PromptTopN ==
    /\ pc = "prompt"
    /\ \E typed \in (-1)..MaxTop :
        /\ top_n' = PyInt(typed)
        /\ IF TopNRejected(typed)
           THEN pc' = "prompt" /\ raised' = "ValueError"
           ELSE pc' = "inputs" /\ raised' = ""
    /\ UNCHANGED <<filter_words, salary_range, vacancies_list, filtered_vacancies,
                   ranged_vacancies, sorted_vacancies, top_vacancies>>

\* The prompt loop, one pass: int() rejects the text typed.
PromptTopNNotANumber ==
    /\ pc = "prompt"
    /\ ~ParseInt(<<"x">>).ok
    /\ raised' = "ValueError"
    /\ UNCHANGED <<pc, top_n, filter_words, salary_range, vacancies_list,
                   filtered_vacancies, ranged_vacancies, sorted_vacancies, top_vacancies>>

\* The two remaining prompts and the query of the store.
ReadInputs ==
    /\ pc = "inputs"
    /\ \E words \in FilterWordLists, range_text \in RangeTexts, search_query \in SearchQueries :
        /\ filter_words' = words
        /\ salary_range' = range_text
        /\ vacancies_list' = get_vacancies(file, [text |-> search_query])
    /\ pc' = "filter"
    /\ UNCHANGED <<top_n, filtered_vacancies, ranged_vacancies, sorted_vacancies,
                   top_vacancies, raised>>

FilterStep ==
    /\ pc = "filter"
    /\ filtered_vacancies' = filter_vacancies(vacancies_list, filter_words)
    /\ pc' = "range"
    /\ UNCHANGED <<top_n, filter_words, salary_range, vacancies_list, ranged_vacancies,
                   sorted_vacancies, top_vacancies, raised>>

RangeStep ==
    /\ pc = "range"
    /\ LET r == get_vacancies_by_salary(filtered_vacancies, salary_range) IN
       IF r.ok
       THEN ranged_vacancies' = r.list /\ pc' = "sort" /\ raised' = raised
       ELSE ranged_vacancies' = ranged_vacancies /\ pc' = "raised" /\ raised' = r.error
    /\ UNCHANGED <<top_n, filter_words, salary_range, vacancies_list, filtered_vacancies,
                   sorted_vacancies, top_vacancies>>

SortStep ==
    /\ pc = "sort"
    /\ LET r == sort_vacancies(ranged_vacancies) IN
       IF r.ok
       THEN sorted_vacancies' = r.list /\ pc' = "top" /\ raised' = raised
       ELSE sorted_vacancies' = sorted_vacancies /\ pc' = "raised" /\ raised' = r.error
    /\ UNCHANGED <<top_n, filter_words, salary_range, vacancies_list, filtered_vacancies,
                   ranged_vacancies, top_vacancies>>

TopStep ==
    /\ pc = "top"
    /\ top_vacancies' = get_top_vacancies(sorted_vacancies, top_n.n)
    /\ pc' = "done"
    /\ UNCHANGED <<top_n, filter_words, salary_range, vacancies_list, filtered_vacancies,
                   ranged_vacancies, sorted_vacancies, raised>>

NextUI ==
    \/ PromptTopN /\ UNCHANGED <<storeVars, recVars, raceVars>>
    \/ PromptTopNNotANumber /\ UNCHANGED <<storeVars, recVars, raceVars>>
    \/ ReadInputs /\ UNCHANGED <<storeVars, recVars, raceVars>>
    \/ FilterStep /\ UNCHANGED <<storeVars, recVars, raceVars>>
    \/ RangeStep /\ UNCHANGED <<storeVars, recVars, raceVars>>
    \/ SortStep /\ UNCHANGED <<storeVars, recVars, raceVars>>
    \/ TopStep /\ UNCHANGED <<storeVars, recVars, raceVars>>

SpecUI == InitUI /\ [][NextUI]_vars

----------------------------------------------------------------------------
(* Claims about the pipeline (specification SpecUI).                        *)

FilterRan == pc \in {"range", "sort", "top", "done", "raised"}
RangeRan == pc \in {"sort", "top", "done"} \/ (pc = "raised" /\ raised = "TypeError")
SortRan == pc \in {"top", "done"} \/ (pc = "raised" /\ raised = "TypeError")

\* C4: with an empty keyword list filter_vacancies returns every entry, in
\* the same order, unchanged.
C4_EmptyKeywordsKeepAll ==
    (FilterRan /\ filter_words = <<>>) => filtered_vacancies = vacancies_list

\* Every salary is a number or the sentinel.
SalariesGiven(list) ==
    \A i \in 1..Len(list) :
        /\ "salary" \in DOMAIN list[i]
        /\ (IsNumber(list[i].salary) \/ list[i].salary = SalaryNotSpecified)

\* The salary as ranked by the claim: the sentinel below every number.
Rank(entry) == IF entry.salary = SalaryNotSpecified THEN -1 ELSE entry.salary.n

\* out is input reordered by salary descending, sentinel last, ties in input order.
StableDescending(input, out) ==
    /\ Len(out) = Len(input)
    /\ \E perm \in [1..Len(input) -> 1..Len(input)] :
        /\ \A i, k \in 1..Len(input) : i # k => perm[i] # perm[k]
        /\ \A i \in 1..Len(input) : out[i] = input[perm[i]]
        /\ \A i, k \in 1..Len(input) :
              i < k => \/ Rank(out[i]) > Rank(out[k])
                       \/ (Rank(out[i]) = Rank(out[k]) /\ perm[i] < perm[k])

\* C5: on entries whose salaries are numbers or the sentinel, sort_vacancies
\* does not fail and returns them by salary descending, every sentinel entry
\* after every numeric one, ties in input order.
C5_SortSentinelLast ==
    (SortRan /\ SalariesGiven(ranged_vacancies)) =>
        /\ pc # "raised"
        /\ StableDescending(ranged_vacancies, sorted_vacancies)

\* C6: with a range "<min>-<max>" get_vacancies_by_salary keeps exactly the
\* entries whose salary is a number with min <= salary <= max (any number the
\* constructor accepts, int or float), in input order; sentinel salaries are
\* excluded; with an empty range every entry is returned.
C6_RangeKeepsNumbersInBounds ==
    RangeRan =>
        IF salary_range = <<>> THEN ranged_vacancies = filtered_vacancies
        ELSE LET r == ParseRange(salary_range)
                 Kept(e) == /\ "salary" \in DOMAIN e
                            /\ IsNumber(e.salary)
                            /\ r.min <= e.salary.n
                            /\ e.salary.n <= r.max
             IN ranged_vacancies = SelectSeq(filtered_vacancies, Kept)

Min(a, b) == IF a <= b THEN a ELSE b

----------------------------------------------------------------------------
(* Two callers on one backing file (specification SpecRace).  A call is     *)
(* json.load, then the write: add_vacancy writes its list at offset 0 and   *)
(* truncates behind it; delete_vacancy truncates the file to nothing first  *)
(* and its dump reaches the file when the with-block closes it.             *)

Callers == {"first", "second"}

RaceVacancies == {r \in StoreVacancies : r.salary = PyInt(1)}

IdleCaller == [pc |-> "idle", op |-> "none", arg |-> PyNone, vacancies |-> <<>>]

OpenCalls == {c \in Callers : caller[c].pc # "idle"}

InitRace ==
    /\ IdleStore
    /\ rec = IdleRec
    /\ IdleUI
    /\ \E start \in {<<>>} \cup {AddWritten(<<>>, r) : r \in RaceVacancies} :
        /\ disk = [state |-> "json", doc |-> start]
        /\ ledger = [start |-> start, ops |-> <<>>]
    /\ caller = [c \in Callers |-> IdleCaller]
    /\ overlapped = FALSE

\* open(filename, "r+") and json.load(file), in add_vacancy or delete_vacancy.
Load(c) ==
    /\ caller[c].pc = "idle"
    /\ Len(ledger.ops) + Cardinality(OpenCalls) < MaxCalls
    /\ disk.state = "json"
    /\ \E call \in {[op |-> "add", arg |-> r] : r \in RaceVacancies}
                   \cup {[op |-> "delete", arg |-> id] : id \in StoreIds} :
        caller' = [caller EXCEPT ![c] = [pc |-> "loaded", op |-> call.op, arg |-> call.arg,
                                         vacancies |-> JsonLoad(disk.doc)]]
    /\ overlapped' = (overlapped \/ OpenCalls # {})
    /\ UNCHANGED <<disk, ledger>>

\* json.load on a file that holds no JSON document: JSONDecodeError ends the call.
LoadFails(c) ==
    /\ caller[c].pc = "idle"
    /\ Len(ledger.ops) + Cardinality(OpenCalls) < MaxCalls
    /\ disk.state # "json"
    /\ ledger' = [ledger EXCEPT !.ops = Append(@, [op |-> "failed", arg |-> PyNone])]
    /\ overlapped' = (overlapped \/ OpenCalls # {})
    /\ UNCHANGED <<disk, caller>>

\* add_vacancy: seek(0), json.dump, truncate.
AddWrite(c) ==
    /\ caller[c].pc = "loaded"
    /\ caller[c].op = "add"
    /\ disk' = [state |-> "json", doc |-> AddWritten(caller[c].vacancies, caller[c].arg)]
    /\ ledger' = [ledger EXCEPT !.ops = Append(@, [op |-> "add", arg |-> caller[c].arg])]
    /\ caller' = [caller EXCEPT ![c] = IdleCaller]
    /\ UNCHANGED overlapped

\* delete_vacancy: seek(0), truncate.
DeleteTruncate(c) ==
    /\ caller[c].pc = "loaded"
    /\ caller[c].op = "delete"
    /\ disk' = [state |-> "empty", doc |-> <<>>]
    /\ caller' = [caller EXCEPT ![c].pc = "truncated"]
    /\ UNCHANGED <<ledger, overlapped>>

\* delete_vacancy: json.dump reaches the file, which is still empty.
DeleteDump(c) ==
    /\ caller[c].pc = "truncated"
    /\ disk.state = "empty"
    /\ disk' = [state |-> "json", doc |-> DeleteWritten(caller[c].vacancies, caller[c].arg)]
    /\ ledger' = [ledger EXCEPT !.ops = Append(@, [op |-> "delete", arg |-> caller[c].arg])]
    /\ caller' = [caller EXCEPT ![c] = IdleCaller]
    /\ UNCHANGED overlapped

\* delete_vacancy: json.dump reaches the file after another caller wrote it.
\* The dump overwrites from offset 0: the file holds the dump alone when the
\* other content was not longer, and the dump followed by the other
\* content's tail (no JSON document) when it was.
DeleteDumpOver(c) ==
    /\ caller[c].pc = "truncated"
    /\ disk.state # "empty"
    /\ \/ disk' = [state |-> "json",
                   doc |-> DeleteWritten(caller[c].vacancies, caller[c].arg)]
       \/ disk' = [state |-> "corrupt", doc |-> <<>>]
    /\ ledger' = [ledger EXCEPT !.ops = Append(@, [op |-> "delete", arg |-> caller[c].arg])]
    /\ caller' = [caller EXCEPT ![c] = IdleCaller]
    /\ UNCHANGED overlapped

NextRace ==
    \/ \E c \in Callers : Load(c) /\ UNCHANGED <<storeVars, recVars, uiVars>>
    \/ \E c \in Callers : LoadFails(c) /\ UNCHANGED <<storeVars, recVars, uiVars>>
    \/ \E c \in Callers : AddWrite(c) /\ UNCHANGED <<storeVars, recVars, uiVars>>
    \/ \E c \in Callers : DeleteTruncate(c) /\ UNCHANGED <<storeVars, recVars, uiVars>>
    \/ \E c \in Callers : DeleteDump(c) /\ UNCHANGED <<storeVars, recVars, uiVars>>
    \/ \E c \in Callers : DeleteDumpOver(c) /\ UNCHANGED <<storeVars, recVars, uiVars>>

SpecRace == InitRace /\ [][NextRace]_vars

\* The list after the completed calls, applied in their order to a list.
RECURSIVE Replay(_, _)
Replay(list, ops) ==
    IF ops = <<>> THEN list
    ELSE LET o == Head(ops)
             next == CASE o.op = "add" -> Append(list, SerializedForm(o.arg))
                       [] o.op = "delete" -> WithoutId(list, o.arg)
                       [] OTHER -> list
         IN Replay(next, Tail(ops))

AllIdle == \A c \in Callers : caller[c].pc = "idle"

\* C10: while no call starts before another has finished, the file holds
\* exactly the result of the completed calls in their order (nothing added
\* is lost, nothing deleted comes back); the witness below is the state the
\* claim says interleaving can reach.
C10_SequentialLosesNothing ==
    (~overlapped /\ AllIdle) =>
        /\ disk.state = "json"
        /\ JsonLoad(disk.doc) = Replay(JsonLoad(ledger.start), ledger.ops)

\* C10 witness: two calls interleaved, both finished, no delete ran, and a
\* record one of them added is not in the file.
C10_Witness ==
    /\ overlapped
    /\ AllIdle
    /\ disk.state = "json"
    /\ \A i \in 1..Len(ledger.ops) : ledger.ops[i].op = "add"
    /\ \E i \in 1..Len(ledger.ops) :
          \A k \in 1..Len(disk.doc) :
              JsonLoadDict(disk.doc[k]) # SerializedForm(ledger.ops[i].arg)

====
